---------------------------- MODULE Spec2Model ----------------------------
(***************************************************************************)
(* Model of the job-recommendation engine of hireonai/ml-services:         *)
(*   - the scoring of get_recommendations                                  *)
(*       (app/api/routes/recommendation_engine_services.py),               *)
(*   - merge_dataframes (app/utils/recommendation/recommendation_utils.py),*)
(*   - the request handlers post_cv_embeddings, get_recommendations,       *)
(*     get_cv_embeddings and get_status over the user_cv_embeddings        *)
(*     collection (the embedding cache),                                   *)
(*   - the handler recommendations of the search-query endpoint            *)
(*       (app/api/recommendation_engine_services.py) with its title and    *)
(*     description queries,                                                *)
(*   - lifespan of the router, which loads the collections at startup,     *)
(*   - TopSimilarity.weighted_similarity                                   *)
(*       (recommendation_system/inference/scripts/top_similarity.py).      *)
(*                                                                         *)
(* Numbers.  The code computes on float64 columns of a pandas DataFrame.   *)
(* A float is modelled as an exact rational in lowest terms, or NaN, or a  *)
(* signed infinity; rounding error is not modelled.  Distances are drawn   *)
(* in tenths: the integer t stands for the distance t/10.                  *)
(***************************************************************************)
EXTENDS Integers, Sequences, FiniteSets, TLC

(***************************************************************************)
(* Bounds of the model.                                                    *)
(***************************************************************************)
MaxIds == 3
MaxDist == 3
MaxLen == 2
MaxUsers == 2
MaxVec == 2
MaxReqs == 2
MaxText == 2

JobIds == 1..MaxIds

Tenths == 0..MaxDist

Users == 1..MaxUsers

\* embedding vectors; NoVec stands for "no embedding"
Vectors == 1..MaxVec

NoVec == 0

Reqs == 1..MaxReqs

\* the texts a CV representation or a search query can be
Texts == 1..MaxText

(***************************************************************************)
(* float64 as rational / NaN / infinity.                                   *)
(***************************************************************************)
Abs(x) == IF x < 0 THEN -x ELSE x

RECURSIVE GCD(_, _)
GCD(a, b) == IF b = 0 THEN a ELSE GCD(b, a % b)

NaN == [k |-> "nan", num |-> 0, den |-> 1]

Inf(sign) == [k |-> "inf", num |-> sign, den |-> 1]

Num(n, d) ==
    LET s == IF d < 0 THEN -1 ELSE 1
        g == GCD(Abs(n), Abs(d))
    IN  [k |-> "num", num |-> (s * n) \div g, den |-> (s * d) \div g]

IsNaN(x) == x.k = "nan"

IsNum(x) == x.k = "num"

Sign(x) == IF x.num < 0 THEN -1 ELSE IF x.num > 0 THEN 1 ELSE 0

FNeg(x) == IF IsNaN(x) THEN NaN ELSE [x EXCEPT !.num = -x.num]

FAdd(x, y) ==
    IF IsNaN(x) \/ IsNaN(y) THEN NaN
    ELSE IF x.k = "inf" /\ y.k = "inf"
         THEN IF x.num = y.num THEN x ELSE NaN
    ELSE IF x.k = "inf" THEN x
    ELSE IF y.k = "inf" THEN y
    ELSE Num(x.num * y.den + y.num * x.den, x.den * y.den)

FSub(x, y) == FAdd(x, FNeg(y))

FMul(x, y) ==
    IF IsNaN(x) \/ IsNaN(y) THEN NaN
    ELSE IF x.k = "inf" \/ y.k = "inf"
         THEN IF Sign(x) * Sign(y) = 0 THEN NaN ELSE Inf(Sign(x) * Sign(y))
    ELSE Num(x.num * y.num, x.den * y.den)

\* numpy float division: 0/0 is NaN and x/0 is a signed infinity; no exception
FDiv(x, y) ==
    IF IsNaN(x) \/ IsNaN(y) THEN NaN
    ELSE IF x.k = "inf" /\ y.k = "inf" THEN NaN
    ELSE IF x.k = "inf" THEN Inf(IF Sign(y) < 0 THEN -x.num ELSE x.num)
    ELSE IF y.k = "inf" THEN Num(0, 1)
    ELSE IF y.num = 0
         THEN IF x.num = 0 THEN NaN ELSE Inf(Sign(x))
    ELSE Num(x.num * y.den, x.den * y.num)

\* x < y on floats; every comparison with NaN is false
FLt(x, y) ==
    /\ ~IsNaN(x)
    /\ ~IsNaN(y)
    /\ x # y
    /\ IF x.k = "inf" THEN x.num < 0
       ELSE IF y.k = "inf" THEN y.num > 0
       ELSE x.num * y.den < y.num * x.den

FLe(x, y) == ~IsNaN(x) /\ ~IsNaN(y) /\ (x = y \/ FLt(x, y))

One == Num(1, 1)

Hundred == Num(100, 1)

\* a distance of t tenths as a float
Dist(t) == Num(t, 10)

\* Series.max(): NaN entries are skipped; NaN when nothing is left
ColMax(col) ==
    LET vals == {col[i] : i \in DOMAIN col} \ {NaN}
    IN  IF vals = {} THEN NaN
        ELSE CHOOSE m \in vals : \A v \in vals : FLe(v, m)


(***************************************************************************)
(* State.                                                                  *)
(*   job_desc_results, job_title_results : what the two collection queries *)
(*       returned (rows of id and distance in tenths); the title results   *)
(*       are None when no search query was given                           *)
(*   recommendations_list : the list the handler answers with              *)
(*   mpc : which scoring path produced recommendations_list                *)
(*   variant : a second pair of query results, derived from the first, and *)
(*       the list the same scoring path produces for it                    *)
(*   user_cv_embeddings : the collection app.state.user_cv_embeddings_     *)
(*       collection, user id -> stored embedding (NoVec: no entry)         *)
(*   job_desc_collection : app.state.job_desc_collection, job id -> stored *)
(*       embedding (NoVec: not stored)                                     *)
(*   job_titles_collection : app.state.job_titles_collection, likewise     *)
(*   req : the requests being handled, one record per request              *)
(*   tie_policy : how the running build orders rows that compare equal (in *)
(*       a Chroma query and in sort_values); fixed for a behaviour         *)
(*   app_state : the collection attributes that lifespan has set on        *)
(*       application.state                                                 *)
(*   loop : the request whose handler is inside a blocking call and keeps  *)
(*       the event loop (0: the loop is free to run any handler)           *)
(*   df1, df2, w1, w2 : the arguments of TopSimilarity.weighted_similarity *)
(*       (frames of id and distance rows, weights in tenths)               *)
(*   final_df, mongo_ids, top_status : the frame weighted_similarity ends  *)
(*       with, the list it returns, and how the call ended                 *)
(*   last_write : history variable, user id -> the embedding and the text  *)
(*       of the most recently completed upsert for that user, and whether  *)
(*       that upsert replaced a different stored embedding                 *)
(***************************************************************************)
VARIABLES job_desc_results, job_title_results, recommendations_list, mpc,
          variant, user_cv_embeddings, job_desc_collection, job_titles_collection,
          req, tie_policy, last_write, loop, app_state,
          df1, df2, w1, w2, final_df, mongo_ids, top_status

mvars == <<job_desc_results, job_title_results, recommendations_list, mpc,
           variant>>

\* the call of weighted_similarity (recommendation_system/inference)
tvars == <<df1, df2, w1, w2, final_df, mongo_ids, top_status>>

\* what no handler of the router changes once the service runs
fixed == <<job_desc_collection, job_titles_collection, tie_policy, app_state,
           tvars>>

\* weighted_similarity is not called
NoSimilarity ==
    /\ df1 = <<>> /\ df2 = <<>>
    /\ w1 = 7 /\ w2 = 3
    /\ final_df = <<>> /\ mongo_ids = <<>>
    /\ top_status = "off"

svars == <<user_cv_embeddings, last_write, fixed, req, loop>>

\* the step is taken by a handler that the free event loop resumes, and ends
\* at an await that gives the loop back
Yielded == loop = 0 /\ loop' = 0

vars == <<job_desc_results, job_title_results, recommendations_list, mpc,
          variant, user_cv_embeddings, job_desc_collection, job_titles_collection,
          req, tie_policy, last_write, loop, app_state,
          df1, df2, w1, w2, final_df, mongo_ids, top_status>>

(***************************************************************************)
(* Query results.  A Chroma query returns each stored id at most once, in  *)
(* ascending order of distance (rows of equal distance in either order).   *)
(***************************************************************************)
Row == [id : JobIds, distance : Tenths]

QueryResults ==
    UNION {{r \in [1..n -> Row] :
               /\ \A i, j \in 1..n : i # j => r[i].id # r[j].id
               /\ \A i \in 1..(n - 1) : r[i].distance <= r[i + 1].distance}
           : n \in 0..MaxLen}

None == [none |-> TRUE, rows |-> <<>>]

\* no second pair of query results
NoVariant ==
    [kind |-> "none", id |-> 0, desc |-> <<>>, title |-> None, out |-> <<>>]

Some(r) == [none |-> FALSE, rows |-> r]

(***************************************************************************)
(* DataFrame helpers.                                                      *)
(***************************************************************************)
\* pd.DataFrame({"id": ids, "<source>_distance": distances})
create_dataframe_from_results(results) ==
    [i \in DOMAIN results |->
        [id |-> results[i].id, distance |-> Dist(results[i].distance)]]

Column(df, f) == [i \in DOMAIN df |-> df[i][f]]

Ids(df) == {df[i].id : i \in DOMAIN df}

RECURSIVE SortedSeq(_)
SortedSeq(S) ==
    IF S = {} THEN <<>>
    ELSE LET m == CHOOSE x \in S : \A y \in S : x <= y
         IN  <<m>> \o SortedSeq(S \ {m})

Lookup(df, key) ==
    IF key \in Ids(df)
    THEN (CHOOSE r \in {df[i] : i \in DOMAIN df} : r.id = key).distance
    ELSE NaN

\* mutant of OuterMerge: the two frames stacked (a concat) instead of joined
OuterMerge_Concat(job_desc_df, job_title_df) ==
    [i \in DOMAIN job_desc_df |->
        [id |-> job_desc_df[i].id,
         job_description_distance |-> job_desc_df[i].distance,
         job_title_distance |-> job_desc_df[i].distance]]
    \o [i \in DOMAIN job_title_df |->
           [id |-> job_title_df[i].id,
            job_description_distance |-> job_title_df[i].distance,
            job_title_distance |-> job_title_df[i].distance]]

\* pd.merge(job_desc_df, job_title_df, on="id", how="outer"): one row per key
\* of the union (ids are unique on each side), keys sorted, NaN for the
\* side that lacks the key
OuterMerge(job_desc_df, job_title_df) ==
    LET keys == SortedSeq(Ids(job_desc_df) \cup Ids(job_title_df))
    IN  [i \in DOMAIN keys |->
            [id |-> keys[i],
             job_description_distance |-> Lookup(job_desc_df, keys[i]),
             job_title_distance |-> Lookup(job_title_df, keys[i])]]

\* the orders in which the rows S of df can come out of a descending sort on
\* match_score: a row of the highest remaining score comes next
RECURSIVE DescendingOrders(_, _)
DescendingOrders(S, df) ==
    IF S = {} THEN {<<>>}
    ELSE UNION {{<<i>> \o t : t \in DescendingOrders(S \ {i}, df)} :
                i \in {i \in S : \A j \in S :
                           FLe(df[j].match_score, df[i].match_score)}}

RECURSIVE AscendingOrders(_, _)
AscendingOrders(S, df) ==
    IF S = {} THEN {<<>>}
    ELSE UNION {{<<i>> \o t : t \in AscendingOrders(S \ {i}, df)} :
                i \in {i \in S : \A j \in S :
                           FLe(df[i].match_score, df[j].match_score)}}

\* mutant of SortValues: ascending=True
SortValues_Ascending(df) ==
    LET nan == {i \in DOMAIN df : IsNaN(df[i].match_score)}
    IN  {[i \in DOMAIN df |-> df[(q \o SortedSeq(nan))[i]]] :
            q \in AscendingOrders(DOMAIN df \ nan, df)}

\* df.sort_values("match_score", ascending=False): descending, NaN rows last
\* in their original order.  The default sort kind is quicksort, which is not
\* stable: rows of equal score may come out in any order.
SortValues(df) ==
    LET nan == {i \in DOMAIN df : IsNaN(df[i].match_score)}
    IN  {[i \in DOMAIN df |-> df[(q \o SortedSeq(nan))[i]]] :
            q \in DescendingOrders(DOMAIN df \ nan, df)}

\* lexicographic order on sequences of integers
RECURSIVE LexLess(_, _)
LexLess(a, b) ==
    IF a = <<>> THEN b # <<>>
    ELSE IF b = <<>> THEN FALSE
    ELSE IF a[1] # b[1] THEN a[1] < b[1]
    ELSE LexLess(Tail(a), Tail(b))

\* df.sort_values as the running build computes it: a function of the frame,
\* rows of equal score in the order of their positions in the frame
\* (tie_policy "low") or in the reverse of it ("high")
SortValuesOf(df) ==
    LET nan == {i \in DOMAIN df : IsNaN(df[i].match_score)}
        orders == DescendingOrders(DOMAIN df \ nan, df)
        q == CHOOSE o \in orders :
                \A t \in orders \ {o} :
                   IF tie_policy = "low" THEN LexLess(o, t) ELSE LexLess(t, o)
    IN  [i \in DOMAIN df |-> df[(q \o SortedSeq(nan))[i]]]

\* JobRecommendation(job_id=item["id"], similarity_score=float(item["match_score"]))
FormatRecommendations(combined_df) ==
    [i \in DOMAIN combined_df |->
        [job_id |-> combined_df[i].id,
         similarity_score |-> combined_df[i].match_score]]


(***************************************************************************)
(* get_recommendations, lines 275-301: the description-only scoring.       *)
(***************************************************************************)
\* mutant of RouteMatchScore: the factor 100 left out
RouteMatchScore_NoScale(distance, max_distance) ==
    FSub(One, FDiv(distance, max_distance))

\* (1 - distance / max_distance) * 100
RouteMatchScore(distance, max_distance) ==
    FMul(FSub(One, FDiv(distance, max_distance)), Hundred)

\* mutant of RouteScored: the last row delivered is taken to be the farthest
RouteScored_LastRowMax(results) ==
    LET job_desc_df == create_dataframe_from_results(results)
        mx == IF Len(job_desc_df) = 0 THEN NaN
              ELSE job_desc_df[Len(job_desc_df)].distance
    IN  [i \in DOMAIN job_desc_df |->
            [id |-> job_desc_df[i].id,
             match_score |-> RouteMatchScore(job_desc_df[i].distance, mx)]]

\* lines 277-283: the frame of the results with its match_score column
RouteScored(results) ==
    LET job_desc_df == create_dataframe_from_results(results)
        mx == ColMax(Column(job_desc_df, "distance"))
    IN  [i \in DOMAIN job_desc_df |->
            [id |-> job_desc_df[i].id,
             match_score |-> RouteMatchScore(job_desc_df[i].distance, mx)]]

\* the possible values of recommendations_list for one query result
RouteRecommendations(results) ==
    {FormatRecommendations(c) : c \in SortValues(RouteScored(results))}

\* recommendations_list as the running build computes it
RouteRecommendationsOf(results) ==
    FormatRecommendations(SortValuesOf(RouteScored(results)))

(***************************************************************************)
(* merge_dataframes.                                                       *)
(***************************************************************************)
TitleWeight == Num(6, 10)

DescWeight == Num(4, 10)

\* job_title_distance * 0.6 + job_description_distance * 0.4
HybridScore(job_title_distance, job_description_distance) ==
    FAdd(FMul(job_title_distance, TitleWeight),
         FMul(job_description_distance, DescWeight))

\* 1 - hybrid_score / hybrid_score.max()
MatchScore(hybrid_score, max_hybrid) ==
    FSub(One, FDiv(hybrid_score, max_hybrid))

\* title absent: the distance column is renamed to match_score, unchanged
DescOnlyFrame(job_desc_df) ==
    [i \in DOMAIN job_desc_df |->
        [id |-> job_desc_df[i].id, match_score |-> job_desc_df[i].distance]]

\* title present: outer join, hybrid score, normalisation
HybridFrame(job_desc_df, job_title_df) ==
    LET combined_df == OuterMerge(job_desc_df, job_title_df)
        hybrid == [i \in DOMAIN combined_df |->
                      HybridScore(combined_df[i].job_title_distance,
                                  combined_df[i].job_description_distance)]
        mx == ColMax(hybrid)
    IN  [i \in DOMAIN combined_df |->
            [id |-> combined_df[i].id,
             match_score |-> MatchScore(hybrid[i], mx)]]

\* the possible return values of merge_dataframes(job_desc_df, job_title_df)
merge_dataframes(job_desc_df, job_title_df) ==
    IF job_title_df.none
    THEN SortValues(DescOnlyFrame(job_desc_df))
    ELSE SortValues(HybridFrame(job_desc_df, job_title_df.rows))

\* recommendations (app/api/recommendation_engine_services.py), lines 152-172:
\* dataframes from both results, merge, format
MergeRecommendations(desc_results, title_results) ==
    LET job_desc_df == create_dataframe_from_results(desc_results)
        job_title_df == IF title_results.none THEN None
                        ELSE Some(create_dataframe_from_results(
                                      title_results.rows))
    IN  {FormatRecommendations(c) :
            c \in merge_dataframes(job_desc_df, job_title_df)}

\* the frame merge_dataframes sorts, for the results of the two queries
MergeFrame(desc_results, title_results) ==
    LET job_desc_df == create_dataframe_from_results(desc_results)
    IN  IF title_results.none THEN DescOnlyFrame(job_desc_df)
        ELSE HybridFrame(job_desc_df,
                         create_dataframe_from_results(title_results.rows))

\* the list recommendations answers with, as the running build computes it
MergeRecommendationsOf(desc_results, title_results) ==
    FormatRecommendations(SortValuesOf(MergeFrame(desc_results,
                                                  title_results)))

(***************************************************************************)
(* The request handlers of app/api/routes/recommendation_engine_services.  *)
(* A handler runs from one await to the next as one action; handlers of    *)
(* different requests interleave at the awaits.                            *)
(***************************************************************************)
NResults == 10000

Min(a, b) == IF a < b THEN a ELSE b

ApiKeys == {"missing", "wrong", "valid"}

\* mutant of get_api_key: only the presence of the header is checked
get_api_key_AnyKey(api_key) ==
    IF api_key = "missing" THEN 401
    ELSE 200

\* get_api_key: the status the dependency ends in (200: the handler runs)
get_api_key(api_key) ==
    IF api_key = "missing" THEN 401
    ELSE IF api_key # "valid" THEN 401
    ELSE 200

\* the orders in which the stored ids S can come out of a nearest-neighbour
\* query: an id at the least remaining distance comes next
RECURSIVE NearestFirst(_, _, _)
NearestFirst(S, collection, embedding) ==
    IF S = {} THEN {<<>>}
    ELSE UNION {{<<j>> \o t :
                    t \in NearestFirst(S \ {j}, collection, embedding)} :
                j \in {j \in S : \A k \in S :
                           Abs(embedding - collection[j])
                               <= Abs(embedding - collection[k])}}

\* mutant of query_collection: the query asks for the nearest row only
query_collection_Nearest(collection, embedding) ==
    LET stored == {j \in DOMAIN collection : collection[j] # NoVec}
        row(j) == [id |-> j, distance |-> Abs(embedding - collection[j])]
    IN  {SubSeq(r, 1, Min(Len(r), 1)) :
            r \in {[i \in DOMAIN q |-> row(q[i])] :
                      q \in NearestFirst(stored, collection, embedding)}}

\* the job_desc collection: nearest neighbours of the embedding, ascending
\* distance, at most n_results rows; an id is stored once
query_collection(collection, embedding) ==
    LET stored == {j \in DOMAIN collection : collection[j] # NoVec}
        row(j) == [id |-> j, distance |-> Abs(embedding - collection[j])]
    IN  {SubSeq(r, 1, Min(Len(r), NResults)) :
            r \in {[i \in DOMAIN q |-> row(q[i])] :
                      q \in NearestFirst(stored, collection, embedding)}}

\* the contents the job_desc collection may have when the service starts: the
\* first k jobs are stored, their embeddings spread over the vectors; no
\* handler writes to this collection
JobCollections ==
    {[j \in JobIds |-> IF j <= k THEN ((j - 1) % MaxVec) + 1 ELSE NoVec] :
        k \in 0..MaxIds}

IdleReq ==
    [kind |-> "idle", pc |-> "idle", user_id |-> 0, text |-> 0,
     cv_embedding |-> NoVec, queries |-> 0, status |-> 0, error |-> "none",
     recommendations |-> <<>>, api_key |-> "none"]

\* except Exception as e: JSONResponse(status_code=500, content={"error": str(e)})
Respond500(rq, e) == [rq EXCEPT !.pc = "done", !.status = 500, !.error = e]

\* no upsert has completed for the user
NoWrite == [text |-> 0, vec |-> NoVec, replaced |-> FALSE]

TiePolicies == {"low", "high"}

\* lifespan, lines 56-77: the three get_collection calls in the order of the
\* code, each assigned to application.state when it returns
CollectionNames ==
    <<"job_titles_collection", "job_desc_collection",
      "user_cv_embeddings_collection">>

Loaded(n) == {CollectionNames[i] : i \in 1..n}

\* lifespan, lines 56-80: an exception of a get_collection call leaves the try
\* block, is logged, and the application starts with the attributes assigned
\* so far; no other code of the router assigns them
LifespanOutcomes == {Loaded(n) : n \in 0..Len(CollectionNames)}

\* request.app.state.<name> of a handler whose attribute was never assigned:
\* State.__getattr__ raises AttributeError, answered with status 500 (by the
\* handler's except Exception, or by the server when the handler has none)
StateAttributeError(r, name) ==
    /\ name \notin app_state
    /\ req' = [req EXCEPT ![r] = Respond500(@, "AttributeError")]
    /\ Yielded
    /\ UNCHANGED <<user_cv_embeddings, last_write, fixed, mvars>>

InitService ==
    /\ NoSimilarity
    /\ app_state \in LifespanOutcomes
    /\ user_cv_embeddings = [u \in Users |-> NoVec]
    /\ last_write = [u \in Users |-> NoWrite]
    /\ job_desc_collection \in JobCollections
    /\ job_titles_collection = [j \in JobIds |-> NoVec]
    /\ tie_policy \in TiePolicies
    /\ req = [r \in Reqs |-> IdleReq]
    /\ loop = 0

\* the first await of each endpoint of the router
FirstStep(kind) ==
    CASE kind = "ingest" -> "convert"
      [] kind = "recommend" -> "get"
      [] kind = "status" -> "heartbeat"
      [] kind = "cv_embeddings" -> "read"

\* a request arrives at POST /cv_embeddings, GET /recommendations, GET /status
\* or GET /cv_embeddings; the get_api_key dependency runs before the handler
\* body.  The CV a user submits is the same on every call.
Arrive(r) ==
    /\ req[r].kind = "idle"
    /\ \E kind \in {"ingest", "recommend", "status", "cv_embeddings"},
          u \in Users, key \in ApiKeys :
          LET user_id == IF kind = "status" THEN 0 ELSE u
          IN  req' = [req EXCEPT ![r] =
                        IF get_api_key(key) # 200
                        THEN [@ EXCEPT !.kind = kind, !.user_id = user_id,
                                       !.api_key = key,
                                       !.pc = "done", !.status = 401,
                                       !.error = "HTTPException"]
                        ELSE [@ EXCEPT !.kind = kind, !.user_id = user_id,
                                       !.api_key = key,
                                       !.pc = FirstStep(kind)]]
    /\ Yielded
    /\ UNCHANGED <<user_cv_embeddings, last_write, fixed, mvars>>

\* get_status: await chroma_client.heartbeat(); an exception is not caught by
\* the handler and the server answers 500
StatusHeartbeat(r) ==
    /\ req[r].kind = "status" /\ req[r].pc = "heartbeat"
    /\ \E ok \in BOOLEAN :
          req' = [req EXCEPT ![r] =
                    IF ok THEN [@ EXCEPT !.pc = "done", !.status = 200]
                    ELSE Respond500(@, "ChromaError")]
    /\ Yielded
    /\ UNCHANGED <<user_cv_embeddings, last_write, fixed, mvars>>

\* post_cv_embeddings, lines 148-158: await change_link_storage_to_gs
IngestConvert(r) ==
    /\ req[r].kind = "ingest" /\ req[r].pc = "convert"
    /\ \E ok \in BOOLEAN :
          req' = [req EXCEPT ![r] =
                    IF ok THEN [@ EXCEPT !.pc = "cv_to_text"]
                    ELSE Respond500(@, "ConvertError")]
    /\ Yielded
    /\ UNCHANGED <<user_cv_embeddings, last_write, fixed, mvars>>

\* lines 161-173: await generate_text_representation_from_cv; the text is what
\* the language model writes for the CV, not a function of the CV.  The
\* handler goes on into create_embedding, which calls the blocking
\* embed_content and so keeps the event loop until it returns
IngestCvToText(r) ==
    /\ req[r].kind = "ingest" /\ req[r].pc = "cv_to_text"
    /\ \/ \E text \in Texts :
             /\ req' = [req EXCEPT ![r] = [@ EXCEPT !.text = text,
                                                    !.pc = "embed"]]
             /\ loop' = r
       \/ /\ req' = [req EXCEPT ![r] = Respond500(@, "GenAIError")]
          /\ loop' = 0
    /\ loop = 0
    /\ UNCHANGED <<user_cv_embeddings, last_write, fixed, mvars>>

\* embed_content of text-multilingual-embedding-002: the embedding model is a
\* fixed function of the text
Embedding(text) == (text % MaxVec) + 1

\* mutant of IngestEmbed: the provider draws the embedding anew on each call
IngestEmbed_Sampled(r) ==
    /\ req[r].kind = "ingest" /\ req[r].pc = "embed"
    /\ \/ \E v \in Vectors :
             req' = [req EXCEPT ![r] = [@ EXCEPT !.cv_embedding = v,
                                                 !.pc = "upsert"]]
       \/ req' = [req EXCEPT ![r] = Respond500(@, "EmbeddingError")]
    /\ loop = r /\ loop' = 0
    /\ UNCHANGED <<user_cv_embeddings, last_write, fixed, mvars>>

\* lines 173-190: create_embedding returns or raises; the handler reaches its
\* next await and gives the event loop back
IngestEmbed(r) ==
    /\ req[r].kind = "ingest" /\ req[r].pc = "embed"
    /\ \/ req' = [req EXCEPT ![r] =
                    [@ EXCEPT !.cv_embedding = Embedding(req[r].text),
                              !.pc = "upsert"]]
       \/ req' = [req EXCEPT ![r] = Respond500(@, "EmbeddingError")]
    /\ loop = r /\ loop' = 0
    /\ UNCHANGED <<user_cv_embeddings, last_write, fixed, mvars>>

\* mutant of IngestUpsert: the write is an insert, which keeps the embedding
\* already stored under the id
IngestUpsert_KeepFirst(r) ==
    \/ /\ req[r].kind = "ingest" /\ req[r].pc = "upsert"
       /\ StateAttributeError(r, "user_cv_embeddings_collection")
    \/ /\ "user_cv_embeddings_collection" \in app_state
       /\ req[r].kind = "ingest" /\ req[r].pc = "upsert"
       /\ \/ /\ user_cv_embeddings' =
                   [user_cv_embeddings EXCEPT ![req[r].user_id] =
                       IF @ = NoVec THEN req[r].cv_embedding ELSE @]
             /\ last_write' =
                   [last_write EXCEPT ![req[r].user_id] =
                       [text |-> req[r].text, vec |-> req[r].cv_embedding,
                        replaced |-> user_cv_embeddings[req[r].user_id]
                                        \notin {NoVec, req[r].cv_embedding}]]
             /\ req' = [req EXCEPT ![r] = [@ EXCEPT !.pc = "done",
                                                    !.status = 200]]
          \/ /\ req' = [req EXCEPT ![r] = Respond500(@, "ChromaError")]
             /\ UNCHANGED <<user_cv_embeddings, last_write>>
       /\ Yielded
       /\ UNCHANGED <<fixed, mvars>>

\* mutant of IngestUpsert: the write is not awaited and a failure of it does
\* not reach the handler, which answers 200
IngestUpsert_FireAndForget(r) ==
    \/ /\ req[r].kind = "ingest" /\ req[r].pc = "upsert"
       /\ StateAttributeError(r, "user_cv_embeddings_collection")
    \/ /\ "user_cv_embeddings_collection" \in app_state
       /\ req[r].kind = "ingest" /\ req[r].pc = "upsert"
       /\ \/ /\ user_cv_embeddings' =
                   [user_cv_embeddings EXCEPT ![req[r].user_id] =
                                                  req[r].cv_embedding]
             /\ last_write' =
                   [last_write EXCEPT ![req[r].user_id] =
                       [text |-> req[r].text, vec |-> req[r].cv_embedding,
                        replaced |-> user_cv_embeddings[req[r].user_id]
                                        \notin {NoVec, req[r].cv_embedding}]]
             /\ req' = [req EXCEPT ![r] = [@ EXCEPT !.pc = "done",
                                                    !.status = 200]]
          \/ /\ req' = [req EXCEPT ![r] = [@ EXCEPT !.pc = "done",
                                                    !.status = 200,
                                                    !.error = "ChromaError"]]
             /\ UNCHANGED <<user_cv_embeddings, last_write>>
       /\ Yielded
       /\ UNCHANGED <<fixed, mvars>>

\* mutant of IngestUpsert: the failing upsert has stored the embedding before
\* it raises
IngestUpsert_WriteThenFail(r) ==
    \/ /\ req[r].kind = "ingest" /\ req[r].pc = "upsert"
       /\ StateAttributeError(r, "user_cv_embeddings_collection")
    \/ /\ "user_cv_embeddings_collection" \in app_state
       /\ req[r].kind = "ingest" /\ req[r].pc = "upsert"
       /\ \/ /\ user_cv_embeddings' =
                   [user_cv_embeddings EXCEPT ![req[r].user_id] =
                                                  req[r].cv_embedding]
             /\ last_write' =
                   [last_write EXCEPT ![req[r].user_id] =
                       [text |-> req[r].text, vec |-> req[r].cv_embedding,
                        replaced |-> user_cv_embeddings[req[r].user_id]
                                        \notin {NoVec, req[r].cv_embedding}]]
             /\ req' = [req EXCEPT ![r] = [@ EXCEPT !.pc = "done",
                                                    !.status = 200]]
          \/ /\ user_cv_embeddings' =
                   [user_cv_embeddings EXCEPT ![req[r].user_id] =
                                                  req[r].cv_embedding]
             /\ req' = [req EXCEPT ![r] = Respond500(@, "ChromaError")]
             /\ UNCHANGED last_write
       /\ Yielded
       /\ UNCHANGED <<fixed, mvars>>

\* mutant of IngestUpsert: the embedding is stored under one id for all users
IngestUpsert_SharedId(r) ==
    \/ /\ req[r].kind = "ingest" /\ req[r].pc = "upsert"
       /\ StateAttributeError(r, "user_cv_embeddings_collection")
    \/ /\ "user_cv_embeddings_collection" \in app_state
       /\ req[r].kind = "ingest" /\ req[r].pc = "upsert"
       /\ \/ /\ user_cv_embeddings' =
                   [user_cv_embeddings EXCEPT ![1] = req[r].cv_embedding]
             /\ last_write' =
                   [last_write EXCEPT ![1] =
                       [text |-> req[r].text, vec |-> req[r].cv_embedding,
                        replaced |-> user_cv_embeddings[1]
                                        \notin {NoVec, req[r].cv_embedding}]]
             /\ req' = [req EXCEPT ![r] = [@ EXCEPT !.pc = "done",
                                                    !.status = 200]]
          \/ /\ req' = [req EXCEPT ![r] = Respond500(@, "ChromaError")]
             /\ UNCHANGED <<user_cv_embeddings, last_write>>
       /\ Yielded
       /\ UNCHANGED <<fixed, mvars>>

\* lines 192-202: await upsert(embeddings=[cv_embedding], ids=[user_id]), then
\* the 200 answer; a failed upsert leaves the collection as it was
IngestUpsert(r) ==
    \/ /\ req[r].kind = "ingest" /\ req[r].pc = "upsert"
       /\ StateAttributeError(r, "user_cv_embeddings_collection")
    \/ /\ "user_cv_embeddings_collection" \in app_state
       /\ req[r].kind = "ingest" /\ req[r].pc = "upsert"
       /\ \/ /\ user_cv_embeddings' =
                   [user_cv_embeddings EXCEPT ![req[r].user_id] =
                                                  req[r].cv_embedding]
             /\ last_write' =
                   [last_write EXCEPT ![req[r].user_id] =
                       [text |-> req[r].text, vec |-> req[r].cv_embedding,
                        replaced |-> user_cv_embeddings[req[r].user_id]
                                        \notin {NoVec, req[r].cv_embedding}]]
             /\ req' = [req EXCEPT ![r] = [@ EXCEPT !.pc = "done",
                                                    !.status = 200]]
          \/ /\ req' = [req EXCEPT ![r] = Respond500(@, "ChromaError")]
             /\ UNCHANGED <<user_cv_embeddings, last_write>>
       /\ Yielded
       /\ UNCHANGED <<fixed, mvars>>

\* collection.get(ids=user_id, include=["embeddings"])["embeddings"]: the list
\* of the embeddings stored under the id, empty when the id is not stored
CollectionGet(collection, user_id) ==
    IF collection[user_id] = NoVec THEN <<>> ELSE <<collection[user_id]>>

\* mutant of CvEmbeddingsGet: the entry is removed once it has been read
CvEmbeddingsGet_Pop(r) ==
    \/ /\ req[r].kind = "cv_embeddings" /\ req[r].pc = "read"
       /\ StateAttributeError(r, "user_cv_embeddings_collection")
    \/ /\ "user_cv_embeddings_collection" \in app_state
       /\ req[r].kind = "cv_embeddings" /\ req[r].pc = "read"
       /\ \/ LET embeddings == CollectionGet(user_cv_embeddings, req[r].user_id)
             IN  /\ req' = [req EXCEPT ![r] =
                              IF Len(embeddings) = 0
                              THEN Respond500(@, "IndexError")
                              ELSE [@ EXCEPT !.cv_embedding = embeddings[1],
                                             !.pc = "done", !.status = 200]]
                 /\ user_cv_embeddings' =
                       [user_cv_embeddings EXCEPT ![req[r].user_id] = NoVec]
          \/ /\ req' = [req EXCEPT ![r] = Respond500(@, "ChromaError")]
             /\ UNCHANGED user_cv_embeddings
       /\ Yielded
       /\ UNCHANGED <<last_write, fixed, mvars>>

\* get_cv_embeddings: await user_cv_embeddings_collection.get and
\* ["embeddings"][0].tolist(); no exception is caught by the handler
CvEmbeddingsGet(r) ==
    \/ /\ req[r].kind = "cv_embeddings" /\ req[r].pc = "read"
       /\ StateAttributeError(r, "user_cv_embeddings_collection")
    \/ /\ "user_cv_embeddings_collection" \in app_state
       /\ req[r].kind = "cv_embeddings" /\ req[r].pc = "read"
       /\ \/ LET embeddings == CollectionGet(user_cv_embeddings, req[r].user_id)
             IN  req' = [req EXCEPT ![r] =
                           IF Len(embeddings) = 0
                           THEN Respond500(@, "IndexError")
                           ELSE [@ EXCEPT !.cv_embedding = embeddings[1],
                                          !.pc = "done", !.status = 200]]
          \/ req' = [req EXCEPT ![r] = Respond500(@, "ChromaError")]
       /\ Yielded
       /\ UNCHANGED <<user_cv_embeddings, last_write, fixed, mvars>>

\* mutant of RecGet: a missing entry is replaced by a default vector
RecGet_FailOpen(r) ==
    \/ /\ req[r].kind = "recommend" /\ req[r].pc = "get"
       /\ StateAttributeError(r, "user_cv_embeddings_collection")
    \/ /\ "user_cv_embeddings_collection" \in app_state
       /\ req[r].kind = "recommend" /\ req[r].pc = "get"
       /\ LET e == user_cv_embeddings[req[r].user_id]
          IN  req' = [req EXCEPT ![r] =
                        [@ EXCEPT !.cv_embedding = IF e = NoVec THEN 1 ELSE e,
                                  !.pc = "query"]]
       /\ Yielded
       /\ UNCHANGED <<user_cv_embeddings, last_write, fixed, mvars>>

\* mutant of RecGet: the embedding is resolved from a copy kept by an answered
\* Ingest of the user, when there is one, and not from the collection
RecGet_FirstSeen(r) ==
    \/ /\ req[r].kind = "recommend" /\ req[r].pc = "get"
       /\ StateAttributeError(r, "user_cv_embeddings_collection")
    \/ /\ "user_cv_embeddings_collection" \in app_state
       /\ req[r].kind = "recommend" /\ req[r].pc = "get"
       /\ \/ LET embeddings == CollectionGet(user_cv_embeddings, req[r].user_id)
                 seen == {q \in Reqs : /\ req[q].kind = "ingest"
                                       /\ req[q].status = 200
                                       /\ req[q].user_id = req[r].user_id}
             IN  req' = [req EXCEPT ![r] =
                           IF Len(embeddings) = 0
                           THEN Respond500(@, "IndexError")
                           ELSE [@ EXCEPT !.cv_embedding =
                                             IF seen = {} THEN embeddings[1]
                                             ELSE req[CHOOSE q \in seen : TRUE]
                                                     .cv_embedding,
                                          !.pc = "query"]]
          \/ req' = [req EXCEPT ![r] = Respond500(@, "ChromaError")]
       /\ Yielded
       /\ UNCHANGED <<user_cv_embeddings, last_write, fixed, mvars>>

\* mutant of RecGet: a failure of the cache read is answered with an error
\* kind of its own
RecGet_TypedError(r) ==
    \/ /\ req[r].kind = "recommend" /\ req[r].pc = "get"
       /\ StateAttributeError(r, "user_cv_embeddings_collection")
    \/ /\ "user_cv_embeddings_collection" \in app_state
       /\ req[r].kind = "recommend" /\ req[r].pc = "get"
       /\ \/ LET embeddings == CollectionGet(user_cv_embeddings, req[r].user_id)
             IN  req' = [req EXCEPT ![r] =
                           IF Len(embeddings) = 0
                           THEN Respond500(@, "IndexError")
                           ELSE [@ EXCEPT !.cv_embedding = embeddings[1],
                                          !.pc = "query"]]
          \/ req' = [req EXCEPT ![r] =
                        [@ EXCEPT !.pc = "done", !.status = 503,
                                  !.error = "CacheReadError"]]
       /\ Yielded
       /\ UNCHANGED <<user_cv_embeddings, last_write, fixed, mvars>>

\* get_recommendations, lines 257-260: await user_cv_embeddings_collection.get
\* and cv_embedding["embeddings"][0], an IndexError on the empty list
RecGet(r) ==
    \/ /\ req[r].kind = "recommend" /\ req[r].pc = "get"
       /\ StateAttributeError(r, "user_cv_embeddings_collection")
    \/ /\ "user_cv_embeddings_collection" \in app_state
       /\ req[r].kind = "recommend" /\ req[r].pc = "get"
       /\ \/ LET embeddings == CollectionGet(user_cv_embeddings, req[r].user_id)
             IN  req' = [req EXCEPT ![r] =
                           IF Len(embeddings) = 0
                           THEN Respond500(@, "IndexError")
                           ELSE [@ EXCEPT !.cv_embedding = embeddings[1],
                                          !.pc = "query"]]
          \/ req' = [req EXCEPT ![r] = Respond500(@, "ChromaError")]
       /\ Yielded
       /\ UNCHANGED <<user_cv_embeddings, last_write, fixed, mvars>>

\* the values of one field of the rows, in row order
KeyOf(rows, field) == [i \in DOMAIN rows |-> rows[i][field]]

\* the one order, of the orders S in which a query can return rows of equal
\* distance, that the running store returns: the same on every call
TieBreak(S, field) ==
    CHOOSE s \in S :
       \A t \in S \ {s} :
          IF tie_policy = "low"
          THEN LexLess(KeyOf(s, field), KeyOf(t, field))
          ELSE LexLess(KeyOf(t, field), KeyOf(s, field))

\* mutant of RecQuery: when the description query fails the handler answers
\* 200 with the rows of a truncated result
RecQuery_PartialOnFailure(r) ==
    /\ req[r].kind = "recommend" /\ req[r].pc = "query"
    /\ \/ LET results == TieBreak(query_collection(job_desc_collection,
                                                   req[r].cv_embedding),
                                  "id")
              recs == RouteRecommendationsOf(results)
          IN  req' = [req EXCEPT ![r] =
                        [@ EXCEPT !.queries = @ + 1, !.pc = "done",
                                  !.status = 200, !.recommendations = recs]]
       \/ LET results == TieBreak(query_collection(job_desc_collection,
                                                   req[r].cv_embedding),
                                  "id")
              recs == RouteRecommendationsOf(
                          SubSeq(results, 1, Min(1, Len(results))))
          IN  req' = [req EXCEPT ![r] =
                        [@ EXCEPT !.queries = @ + 1, !.pc = "done",
                                  !.status = 200, !.error = "ChromaError",
                                  !.recommendations = recs]]
    /\ Yielded
    /\ UNCHANGED <<user_cv_embeddings, last_write, fixed, mvars>>

\* lines 262-316: await query_collection(job_desc_collection, cv_embedding),
\* scoring, sorting and the 200 answer
RecQuery(r) ==
    /\ req[r].kind = "recommend" /\ req[r].pc = "query"
    /\ \/ LET results == TieBreak(query_collection(job_desc_collection,
                                                   req[r].cv_embedding),
                                  "id")
              recs == RouteRecommendationsOf(results)
          IN  req' = [req EXCEPT ![r] =
                        [@ EXCEPT !.queries = @ + 1, !.pc = "done",
                                  !.status = 200, !.recommendations = recs]]
       \/ req' = [req EXCEPT ![r] =
                     Respond500([@ EXCEPT !.queries = @ + 1], "ChromaError")]
    /\ Yielded
    /\ UNCHANGED <<user_cv_embeddings, last_write, fixed, mvars>>

\* the response has been sent: the handler's locals are gone and the worker
\* takes the next request
Release(r) ==
    /\ req[r].pc = "done"
    /\ req' = [req EXCEPT ![r] = IdleReq]
    /\ Yielded
    /\ UNCHANGED <<user_cv_embeddings, last_write, fixed, mvars>>

Init ==
    /\ InitService
    /\ job_desc_results = <<>>
    /\ job_title_results = None
    /\ recommendations_list = <<>>
    /\ mpc = "off"
    /\ variant = NoVariant

Next ==
    \E r \in Reqs :
       \/ Arrive(r)
       \/ StatusHeartbeat(r)
       \/ IngestConvert(r)
       \/ IngestCvToText(r)
       \/ IngestEmbed(r)
       \/ IngestUpsert(r)
       \/ CvEmbeddingsGet(r)
       \/ RecGet(r)
       \/ RecQuery(r)
       \/ Release(r)

Spec == Init /\ [][Next]_vars


(***************************************************************************)
(* The handler recommendations of app/api/recommendation_engine_services:  *)
(* POST /recommendations with a CV and an optional search query, scored by *)
(* merge_dataframes.  It reads the two job collections and writes nothing  *)
(* that another request can see, so one execution at a time is modelled.   *)
(* The helpers it awaits for the CV are modelled by their outcome only.    *)
(***************************************************************************)
HybridReqs == {1}

\* search_query 0 stands for the empty search query
IdleHybridReq ==
    [kind |-> "idle", pc |-> "idle", search_query |-> 0, text |-> 0,
     job_title_embedding |-> NoVec, cv_embedding |-> NoVec,
     title_query |-> "none", desc_query |-> "none",
     title_sent |-> <<>>, desc_sent |-> <<>>,
     job_title_results |-> None,
     status |-> 0, error |-> "none", recommendations |-> <<>>]

\* the executions of the handler after a startup that loaded the collections
InitHybrid ==
    /\ NoSimilarity
    /\ app_state = Loaded(Len(CollectionNames))
    /\ req = [r \in HybridReqs |-> IdleHybridReq]
    /\ loop = 0
    /\ job_desc_collection \in JobCollections
    /\ job_titles_collection \in JobCollections
    /\ tie_policy \in TiePolicies
    /\ user_cv_embeddings = [u \in Users |-> NoVec]
    /\ last_write = [u \in Users |-> NoWrite]
    /\ job_desc_results = <<>>
    /\ job_title_results = None
    /\ recommendations_list = <<>>
    /\ mpc = "off"
    /\ variant = NoVariant

\* a request arrives at POST /recommendations
RecommendationsArrive(r) ==
    /\ req[r].kind = "idle"
    /\ \E search_query \in {0} \cup Texts :
          req' = [req EXCEPT ![r] =
                    [@ EXCEPT !.kind = "recommendations",
                              !.search_query = search_query,
                              !.pc = "download"]]
    /\ Yielded
    /\ UNCHANGED <<user_cv_embeddings, last_write, fixed, mvars>>

\* line 124: await download_user_cv
RecommendationsDownload(r) ==
    /\ req[r].kind = "recommendations" /\ req[r].pc = "download"
    /\ \E ok \in BOOLEAN :
          req' = [req EXCEPT ![r] =
                    IF ok THEN [@ EXCEPT !.pc = "cv_to_text"]
                    ELSE Respond500(@, "DownloadError")]
    /\ Yielded
    /\ UNCHANGED <<user_cv_embeddings, last_write, fixed, mvars>>

\* mutant of RecommendationsCvToText: the title path is taken whether or not
\* a search query was given
RecommendationsCvToText_AlwaysTitle(r) ==
    /\ req[r].kind = "recommendations" /\ req[r].pc = "cv_to_text"
    /\ \/ \E text \in Texts :
             req' = [req EXCEPT ![r] =
                       [@ EXCEPT !.text = text, !.pc = "title_embed"]]
       \/ req' = [req EXCEPT ![r] = Respond500(@, "GenAIError")]
    /\ Yielded
    /\ UNCHANGED <<user_cv_embeddings, last_write, fixed, mvars>>

\* lines 125-131: await generate_text_representation_from_cv, then
\* job_title_results = None and the test of req_data.search_query
RecommendationsCvToText(r) ==
    /\ req[r].kind = "recommendations" /\ req[r].pc = "cv_to_text"
    /\ \/ \E text \in Texts :
             req' = [req EXCEPT ![r] =
                       [@ EXCEPT !.text = text,
                                 !.pc = IF req[r].search_query # 0
                                        THEN "title_embed" ELSE "cv_embed"]]
       \/ req' = [req EXCEPT ![r] = Respond500(@, "GenAIError")]
    /\ Yielded
    /\ UNCHANGED <<user_cv_embeddings, last_write, fixed, mvars>>

\* mutant of TitleQueryIssue: the two queries are started together and
\* gathered
TitleQueryIssue_Gather(r) ==
    /\ req[r].kind = "recommendations" /\ req[r].pc = "title_embed"
    /\ \/ LET job_title_embedding == Embedding(req[r].search_query)
              cv_embedding == Embedding(req[r].text)
          IN  req' = [req EXCEPT ![r] =
                        [@ EXCEPT !.job_title_embedding = job_title_embedding,
                                  !.cv_embedding = cv_embedding,
                                  !.title_query = "in_flight",
                                  !.desc_query = "in_flight",
                                  !.title_sent =
                                      Append(@, job_title_embedding),
                                  !.desc_sent = Append(@, cv_embedding),
                                  !.pc = "title_wait"]]
       \/ req' = [req EXCEPT ![r] = Respond500(@, "EmbeddingError")]
    /\ Yielded
    /\ UNCHANGED <<user_cv_embeddings, last_write, fixed, mvars>>

\* lines 133-140: create_embedding of the search query, then query_collection
\* on job_titles_collection is called and the handler waits for its result
TitleQueryIssue(r) ==
    /\ req[r].kind = "recommendations" /\ req[r].pc = "title_embed"
    /\ \/ LET job_title_embedding == Embedding(req[r].search_query)
          IN  req' = [req EXCEPT ![r] =
                        [@ EXCEPT !.job_title_embedding = job_title_embedding,
                                  !.title_query = "in_flight",
                                  !.title_sent =
                                      Append(@, job_title_embedding),
                                  !.pc = "title_wait"]]
       \/ req' = [req EXCEPT ![r] = Respond500(@, "EmbeddingError")]
    /\ Yielded
    /\ UNCHANGED <<user_cv_embeddings, last_write, fixed, mvars>>

\* mutant of TitleQueryReturn: a failed title query is dropped and the handler
\* goes on without title rows
TitleQueryReturn_Degrade(r) ==
    /\ req[r].kind = "recommendations" /\ req[r].pc = "title_wait"
    /\ \/ LET results == TieBreak(query_collection(job_titles_collection,
                                      req[r].job_title_embedding), "id")
          IN  req' = [req EXCEPT ![r] =
                        [@ EXCEPT !.job_title_results = Some(results),
                                  !.title_query = "done",
                                  !.pc = "cv_embed"]]
       \/ req' = [req EXCEPT ![r] =
                     [@ EXCEPT !.title_query = "failed", !.pc = "cv_embed"]]
    /\ Yielded
    /\ UNCHANGED <<user_cv_embeddings, last_write, fixed, mvars>>

\* lines 138-140: the awaited title query returns its rows or raises
TitleQueryReturn(r) ==
    /\ req[r].kind = "recommendations" /\ req[r].pc = "title_wait"
    /\ \/ LET results == TieBreak(query_collection(job_titles_collection,
                                      req[r].job_title_embedding), "id")
          IN  req' = [req EXCEPT ![r] =
                        [@ EXCEPT !.job_title_results = Some(results),
                                  !.title_query = "done",
                                  !.pc = "cv_embed"]]
       \/ req' = [req EXCEPT ![r] =
                     Respond500([@ EXCEPT !.title_query = "failed"],
                                "ChromaError")]
    /\ Yielded
    /\ UNCHANGED <<user_cv_embeddings, last_write, fixed, mvars>>

\* mutant of DescQueryIssue: the embedding of the search query, when there is
\* one, is reused for the description query
DescQueryIssue_ReuseTitle(r) ==
    /\ req[r].kind = "recommendations" /\ req[r].pc = "cv_embed"
    /\ \/ LET cv_embedding == IF req[r].job_title_embedding # NoVec
                              THEN req[r].job_title_embedding
                              ELSE Embedding(req[r].text)
          IN  req' = [req EXCEPT ![r] =
                        [@ EXCEPT !.cv_embedding = cv_embedding,
                                  !.desc_query = "in_flight",
                                  !.desc_sent = Append(@, cv_embedding),
                                  !.pc = "desc_wait"]]
       \/ req' = [req EXCEPT ![r] = Respond500(@, "EmbeddingError")]
    /\ Yielded
    /\ UNCHANGED <<user_cv_embeddings, last_write, fixed, mvars>>

\* lines 143-150: create_embedding of the CV text, then query_collection on
\* job_desc_collection is called and the handler waits for its result
DescQueryIssue(r) ==
    /\ req[r].kind = "recommendations" /\ req[r].pc = "cv_embed"
    /\ \/ LET cv_embedding == Embedding(req[r].text)
          IN  req' = [req EXCEPT ![r] =
                        [@ EXCEPT !.cv_embedding = cv_embedding,
                                  !.desc_query = "in_flight",
                                  !.desc_sent = Append(@, cv_embedding),
                                  !.pc = "desc_wait"]]
       \/ req' = [req EXCEPT ![r] = Respond500(@, "EmbeddingError")]
    /\ Yielded
    /\ UNCHANGED <<user_cv_embeddings, last_write, fixed, mvars>>

\* lines 148-172: the awaited description query returns its rows, which are
\* merged with the title rows, scored and answered, or it raises
DescQueryReturn(r) ==
    /\ req[r].kind = "recommendations" /\ req[r].pc = "desc_wait"
    /\ \/ LET results == TieBreak(query_collection(job_desc_collection,
                                      req[r].cv_embedding), "id")
              recs == MergeRecommendationsOf(results,
                                             req[r].job_title_results)
          IN  req' = [req EXCEPT ![r] =
                        [@ EXCEPT !.desc_query = "done", !.pc = "done",
                                  !.status = 200, !.recommendations = recs]]
       \/ req' = [req EXCEPT ![r] =
                     Respond500([@ EXCEPT !.desc_query = "failed"],
                                "ChromaError")]
    /\ Yielded
    /\ UNCHANGED <<user_cv_embeddings, last_write, fixed, mvars>>

NextHybrid ==
    \E r \in HybridReqs :
       \/ RecommendationsArrive(r)
       \/ RecommendationsDownload(r)
       \/ RecommendationsCvToText(r)
       \/ TitleQueryIssue(r)
       \/ TitleQueryReturn(r)
       \/ DescQueryIssue(r)
       \/ DescQueryReturn(r)

SpecHybrid == InitHybrid /\ [][NextHybrid]_vars


(***************************************************************************)
(* The scoring functions applied to every bounded pair of query results.   *)
(***************************************************************************)
\* the two results of the worked examples: description-only A at 0.1 and B at
\* 0.5; description A at 0.2, B at 0.4 with title A at 0.1, C at 0.3
ExampleResults ==
    {<<<<[id |-> 1, distance |-> 1], [id |-> 2, distance |-> 5]>>, None>>,
     <<<<[id |-> 1, distance |-> 2], [id |-> 2, distance |-> 4]>>,
       Some(<<[id |-> 1, distance |-> 1], [id |-> 3, distance |-> 3]>>)>>}

InitMerge ==
    /\ NoSimilarity
    /\ app_state = Loaded(Len(CollectionNames))
    /\ \/ /\ job_desc_results \in QueryResults
          /\ job_title_results \in {None} \cup {Some(r) : r \in QueryResults}
       \/ \E ex \in ExampleResults :
             /\ job_desc_results = ex[1]
             /\ job_title_results = ex[2]
    /\ recommendations_list = <<>>
    /\ mpc = "input"
    /\ variant = NoVariant
    /\ user_cv_embeddings = [u \in Users |-> NoVec]
    /\ last_write = [u \in Users |-> NoWrite]
    /\ job_desc_collection = [j \in JobIds |-> NoVec]
    /\ job_titles_collection = [j \in JobIds |-> NoVec]
    /\ tie_policy = "low"
    /\ req = [r \in Reqs |-> IdleReq]
    /\ loop = 0

\* get_recommendations scores the description results
ScoreRoute ==
    /\ mpc = "input"
    /\ job_title_results.none
    /\ recommendations_list' \in RouteRecommendations(job_desc_results)
    /\ mpc' = "route"
    /\ UNCHANGED <<job_desc_results, job_title_results, variant, svars>>

\* recommendations scores through merge_dataframes
ScoreMerge ==
    /\ mpc = "input"
    /\ recommendations_list' \in
           MergeRecommendations(job_desc_results, job_title_results)
    /\ mpc' = "merge"
    /\ UNCHANGED <<job_desc_results, job_title_results, variant, svars>>

NextMerge == ScoreRoute \/ ScoreMerge

SpecMerge == InitMerge /\ [][NextMerge]_vars


(***************************************************************************)
(* Properties of the scoring paths, checked under SpecMerge.               *)
(***************************************************************************)
Out == recommendations_list

Scored == mpc \in {"route", "merge"}

HasTitle == ~job_title_results.none

TitleRows == job_title_results.rows

RowIds(rows) == {rows[i].id : i \in DOMAIN rows}

TenthsOf(rows, j) == rows[CHOOSE i \in DOMAIN rows : rows[i].id = j].distance

Score(i) == Out[i].similarity_score

Zero == Num(0, 1)

\* every candidate has a distance on both axes
BothAxes == HasTitle /\ RowIds(job_desc_results) = RowIds(TitleRows)

\* 100 x the hybrid distance of candidate j, in exact integers: 6 t + 4 d
Hybrid100(j) ==
    6 * TenthsOf(TitleRows, j) + 4 * TenthsOf(job_desc_results, j)

\* C1: in the list produced by either scoring path every candidate identifier
\* appears at most once, also when the two result sequences share identifiers
C1_NoDuplicateIds ==
    Scored => \A i, j \in DOMAIN Out : i # j => Out[i].job_id # Out[j].job_id

C1_Witness ==
    /\ mpc = "merge"
    /\ HasTitle
    /\ RowIds(job_desc_results) \cap RowIds(TitleRows) # {}
    /\ RowIds(job_desc_results) # RowIds(TitleRows)
    /\ Len(Out) >= 2

\* C2: for a non-empty result set every returned similarity score is a
\* defined number in [0, 100], on the description-only and the hybrid path
C2_ScoresInRange ==
    (Scored /\ Len(job_desc_results) > 0) =>
        \A i \in DOMAIN Out :
            IsNum(Score(i)) /\ FLe(Zero, Score(i)) /\ FLe(Score(i), Hundred)

\* C3: for a non-empty result set the candidate ranked first has the minimum
\* distance and no candidate scores higher, without title results (Case A)
\* and with them (Case B, hybrid distance)
C3_MinDistanceFirst ==
    /\ (Scored /\ ~HasTitle /\ Len(job_desc_results) > 0) =>
          /\ \A i \in DOMAIN job_desc_results :
                TenthsOf(job_desc_results, Out[1].job_id)
                    <= job_desc_results[i].distance
          /\ \A i \in DOMAIN Out : ~FLt(Score(1), Score(i))
    /\ (mpc = "merge" /\ BothAxes /\ Len(job_desc_results) > 0) =>
          /\ \A j \in RowIds(job_desc_results) :
                Hybrid100(Out[1].job_id) <= Hybrid100(j)
          /\ \A i \in DOMAIN Out : ~FLt(Score(1), Score(i))

\* C4: when all distances of a batch are equal (a single result and all zero
\* included) every candidate's similarity is 100
C4_AllEqualGives100 ==
    /\ (Scored /\ ~HasTitle /\ Len(job_desc_results) > 0
          /\ \A i, j \in DOMAIN job_desc_results :
                job_desc_results[i].distance = job_desc_results[j].distance) =>
          \A i \in DOMAIN Out : Score(i) = Hundred
    /\ (mpc = "merge" /\ BothAxes /\ Len(job_desc_results) > 0
          /\ \A i, j \in RowIds(job_desc_results) :
                Hybrid100(i) = Hybrid100(j)) =>
          \A i \in DOMAIN Out : Score(i) = Hundred

ScenarioC5 ==
    /\ mpc = "route"
    /\ job_desc_results =
           <<[id |-> 1, distance |-> 1], [id |-> 2, distance |-> 5]>>

\* C5 as stated: description-only results A at 0.1 and B at 0.5 are answered
\* with [(A, 100), (B, 0)]
C5_Original ==
    ScenarioC5 =>
        Out = <<[job_id |-> 1, similarity_score |-> Hundred],
                [job_id |-> 2, similarity_score |-> Zero]>>

\* C5 amended: description-only results A at 0.1 and B at 0.5 are answered
\* with [(A, 80), (B, 0)], since (1 - 0.1 / 0.5) x 100 = 80
C5_Amended ==
    ScenarioC5 =>
        Out = <<[job_id |-> 1, similarity_score |-> Num(80, 1)],
                [job_id |-> 2, similarity_score |-> Zero]>>

C5_Witness == ScenarioC5 /\ Len(Out) = 2

\* C6: in the hybrid merge a candidate present in only one of the two result
\* sequences still receives a defined similarity score
C6_MissingAxisDefined ==
    (mpc = "merge" /\ HasTitle /\ Len(job_desc_results) > 0) =>
        \A i \in DOMAIN Out :
            (Out[i].job_id \notin
                 RowIds(job_desc_results) \cap RowIds(TitleRows))
                => IsNum(Score(i))

ScenarioC7 ==
    /\ mpc = "merge"
    /\ job_desc_results =
           <<[id |-> 1, distance |-> 2], [id |-> 2, distance |-> 4]>>
    /\ job_title_results =
           Some(<<[id |-> 1, distance |-> 1], [id |-> 3, distance |-> 3]>>)

\* C7: description [(A,0.2),(B,0.4)] and title [(A,0.1),(C,0.3)] merge to
\* exactly the candidates A, B, C, each with a defined score, A ranked first
C7_ScenarioABC ==
    ScenarioC7 =>
        /\ Len(Out) = 3
        /\ {Out[i].job_id : i \in DOMAIN Out} = {1, 2, 3}
        /\ \A i \in DOMAIN Out : IsNum(Score(i))
        /\ Out[1].job_id = 1

\* C8: with both result sets present a candidate's similarity is
\* (1 - hybrid / max_hybrid) x 100 with hybrid = 0.6 title + 0.4 description,
\* the 0..100 scale of the description-only case
C8_HybridScaledTo100 ==
    (mpc = "merge" /\ BothAxes /\ Len(job_desc_results) > 0) =>
        LET mx == CHOOSE m \in {Hybrid100(j) : j \in RowIds(job_desc_results)} :
                      \A j \in RowIds(job_desc_results) : Hybrid100(j) <= m
        IN  mx > 0 =>
                \A i \in DOMAIN Out :
                    Score(i) = Num((mx - Hybrid100(Out[i].job_id)) * 100, mx)

\* C9 as stated: the list is sorted by descending similarity and candidates of
\* equal similarity appear in ascending order of identifier
C9_Original ==
    Scored =>
        \A i, j \in DOMAIN Out :
            (i < j /\ IsNum(Score(i)) /\ IsNum(Score(j))) =>
                \/ FLt(Score(j), Score(i))
                \/ Score(i) = Score(j) /\ Out[i].job_id < Out[j].job_id

\* C9 amended: the list is sorted by descending similarity, candidates with an
\* undefined score last; candidates of equal similarity come in no fixed order
C9_SortedDescending ==
    Scored =>
        \A i, j \in DOMAIN Out :
            i < j =>
                /\ (IsNum(Score(i)) /\ IsNum(Score(j))) =>
                       FLe(Score(j), Score(i))
                /\ IsNaN(Score(i)) => IsNaN(Score(j))

C9_Witness ==
    /\ mpc = "route"
    /\ Len(Out) = 2
    /\ IsNum(Score(1))
    /\ Score(1) = Score(2)
    /\ Out[2].job_id < Out[1].job_id

TitlePathFailed(r) ==
    /\ req[r].kind = "recommendations"
    /\ req[r].search_query # 0
    /\ \/ req[r].title_query = "failed"
       \/ req[r].title_query = "none" /\ req[r].error = "EmbeddingError"

\* request r was given a non-empty search query
HasSearchQuery(r) ==
    /\ req[r].kind = "recommendations"
    /\ req[r].search_query # 0

DescQueryFailed(r) ==
    /\ req[r].kind = "recommend"
    /\ req[r].queries = 1
    /\ req[r].error = "ChromaError"

\* C12: when the description-collection query fails the Recommend request
\* fails as a whole: it is answered with an error and with no recommendation
\* list, not even a partial one
C12_DescFailureFailsRequest ==
    \A r \in Reqs :
       DescQueryFailed(r) =>
          /\ req[r].pc = "done"
          /\ req[r].status = 500
          /\ req[r].recommendations = <<>>

C12_Witness ==
    \E r \in Reqs :
       /\ DescQueryFailed(r)
       /\ req[r].cv_embedding # NoVec
       /\ \E j \in JobIds : job_desc_collection[j] # NoVec

\* request r takes a step of post_cv_embeddings that does not end in the 200
\* answer
IngestStepWithoutSuccess(r) ==
    /\ req[r].kind = "ingest" \/ req'[r].kind = "ingest"
    /\ req'[r] # req[r]
    /\ req'[r].status # 200

\* C13: an Ingest call that fails, at the URL conversion, the CV-to-text step,
\* the embedding creation or the cache write, performs no cache mutation: every
\* step of the call other than the one that answers 200 leaves every cache
\* entry, absent or stored, as it was
C13_FailedIngestLeavesCache ==
    [][\A r \in Reqs :
          IngestStepWithoutSuccess(r) => UNCHANGED user_cv_embeddings]_vars

C13_Witness ==
    \E r \in Reqs :
       /\ req[r].kind = "ingest"
       /\ req[r].status = 500
       /\ req[r].error = "ChromaError"
       /\ user_cv_embeddings[req[r].user_id] \notin {NoVec, req[r].cv_embedding}

\* request r of get_recommendations resolves the embedding of its user in
\* this step
Resolves(r) ==
    /\ req[r].kind = "recommend"
    /\ req[r].pc = "get"
    /\ req'[r].pc = "query"

\* C14: the vector a Recommend request resolves for its user is the vector of
\* the most recently completed cache write for that user; the cache holds
\* that vector at all times, so an older vector is never read once a newer
\* write has completed
C14_ReadsLatestWrite ==
    /\ [](\A u \in Users : user_cv_embeddings[u] = last_write[u].vec)
    /\ [][\A r \in Reqs :
             Resolves(r) =>
                req'[r].cv_embedding = last_write[req[r].user_id].vec]_vars

C14_Witness ==
    \E r \in Reqs :
       /\ req[r].kind = "recommend"
       /\ req[r].pc = "query"
       /\ last_write[req[r].user_id].replaced
       /\ req[r].cv_embedding = last_write[req[r].user_id].vec

\* request r of post_cv_embeddings completes its cache write in this step
Writes(r) ==
    /\ req[r].kind = "ingest"
    /\ req[r].pc = "upsert"
    /\ req'[r].status = 200

\* both requests are answered Ingests of the same user
BothIngested(r1, r2) ==
    /\ r1 # r2
    /\ req[r1].kind = "ingest" /\ req[r1].status = 200
    /\ req[r2].kind = "ingest" /\ req[r2].status = 200
    /\ req[r1].user_id = req[r2].user_id

\* C15: under every interleaving of two concurrent Ingests of one user, each
\* cache write sets the entry to the vector its own request computed from its
\* text, whatever the entry held (the write does not read the cache), and
\* touches no other entry; so once both have finished the entry is the vector
\* of one of the two, the one that wrote last, and never a mixed value
C15_LastWriteWins ==
    /\ [](\A r1, r2 \in Reqs :
             BothIngested(r1, r2) =>
                /\ user_cv_embeddings[req[r1].user_id]
                      \in {req[r1].cv_embedding, req[r2].cv_embedding}
                /\ user_cv_embeddings[req[r1].user_id]
                      = last_write[req[r1].user_id].vec)
    /\ [][\A r \in Reqs :
             Writes(r) =>
                /\ user_cv_embeddings' =
                      [user_cv_embeddings EXCEPT ![req[r].user_id] =
                                                     Embedding(req[r].text)]
                /\ req'[r].cv_embedding = Embedding(req[r].text)]_vars

C15_Witness ==
    \E r1, r2 \in Reqs :
       /\ BothIngested(r1, r2)
       /\ req[r1].cv_embedding # req[r2].cv_embedding
       /\ last_write[req[r1].user_id].replaced
       /\ user_cv_embeddings[req[r1].user_id] = req[r1].cv_embedding

\* request r takes a step of one of the reading endpoints
ReadOnlyStep(r) ==
    /\ req[r].kind \in {"recommend", "cv_embeddings", "status"}
    /\ req'[r] # req[r]

\* C16: only a cache write of Ingest changes the embedding cache: every step
\* of Recommend, of the cv_embeddings read endpoint and of the status
\* endpoint, successful or failing, leaves every entry unchanged, and no step
\* of any operation removes an entry
C16_OnlyIngestWrites ==
    [][/\ \A r \in Reqs : ReadOnlyStep(r) => UNCHANGED user_cv_embeddings
       /\ user_cv_embeddings' # user_cv_embeddings => \E r \in Reqs : Writes(r)
       /\ \A u \in Users : user_cv_embeddings[u] # NoVec
                              => user_cv_embeddings'[u] # NoVec]_vars

C16_Witness ==
    \E r1, r2 \in Reqs :
       /\ req[r1].kind = "cv_embeddings" /\ req[r1].status = 200
       /\ req[r2].kind = "recommend" /\ req[r2].status = 200
       /\ req[r1].user_id = req[r2].user_id
       /\ user_cv_embeddings[req[r1].user_id] = req[r1].cv_embedding
       /\ user_cv_embeddings[req[r1].user_id] = req[r2].cv_embedding

\* request r completes a cache write with the text of the most recently
\* completed write for its user: the Ingest is repeated with the same input
RepeatsIngest(r) ==
    /\ Writes(r)
    /\ last_write[req[r].user_id].text = req[r].text

\* both requests are answered Recommends that resolved the same vector
SameResolved(r1, r2) ==
    /\ req[r1].kind = "recommend" /\ req[r1].status = 200
    /\ req[r2].kind = "recommend" /\ req[r2].status = 200
    /\ req[r1].cv_embedding = req[r2].cv_embedding

IngestSucceeds(r) ==
    /\ req'[r].kind = "ingest"
    /\ req[r].status # 200
    /\ req'[r].status = 200

\* C18: Ingest answers success only with the cache write completed: the step
\* that answers 200 is the upsert step and leaves the request's vector stored
\* under its user; a request whose cache write failed is answered with the
\* error, never with success
C18_SuccessOnlyAfterWrite ==
    /\ [][\A r \in Reqs :
             IngestSucceeds(r) =>
                /\ req[r].pc = "upsert"
                /\ user_cv_embeddings'[req[r].user_id] = req[r].cv_embedding
                /\ last_write'[req[r].user_id].vec = req[r].cv_embedding]_vars
    /\ [](\A r \in Reqs :
             req[r].kind = "ingest" /\ req[r].error # "none"
                => req[r].status \in {401, 500})

C18_Witness ==
    \E r1, r2 \in Reqs :
       /\ req[r1].kind = "ingest" /\ req[r1].status = 200
       /\ user_cv_embeddings[req[r1].user_id] = req[r1].cv_embedding
       /\ req[r2].kind = "ingest" /\ req[r2].status = 500
       /\ req[r2].error = "ChromaError"
       /\ req[r2].cv_embedding # NoVec

DescQueries(r) == Len(req[r].desc_sent)

TitleQueries(r) == Len(req[r].title_sent)

\* request r has been answered after sending at least one query
FinishedAfterQuery(r) ==
    /\ req[r].kind = "recommendations"
    /\ req[r].pc = "done"
    /\ DescQueries(r) + TitleQueries(r) > 0

C21_VectorsToOwnCollection ==
    \A r \in HybridReqs :
       /\ \A i \in DOMAIN req[r].desc_sent :
             req[r].desc_sent[i] = Embedding(req[r].text)
       /\ \A i \in DOMAIN req[r].title_sent :
             req[r].title_sent[i] = Embedding(req[r].search_query)

C21_Witness ==
    \E r \in HybridReqs :
       /\ req[r].status = 200
       /\ req[r].title_sent # <<>>
       /\ req[r].desc_sent # <<>>
       /\ req[r].title_sent[1] # req[r].desc_sent[1]

(***************************************************************************)
(* The scoring paths applied to two related pairs of query results: the    *)
(* second pair holds the rows of the first in another delivery order, or   *)
(* has one candidate at a smaller distance on one axis.                    *)
(***************************************************************************)
Without(rows, i) == SubSeq(rows, 1, i - 1) \o SubSeq(rows, i + 1, Len(rows))

\* the orders in which the rows can be delivered
RECURSIVE DeliveryOrders(_)
DeliveryOrders(rows) ==
    IF rows = <<>> THEN {<<>>}
    ELSE UNION {{<<rows[i]>> \o t : t \in DeliveryOrders(Without(rows, i))} :
                i \in DOMAIN rows}

\* the results of a query in which candidate j is nearer than in rows and
\* every other candidate is at its distance in rows
Decreased(rows, j) ==
    {r \in QueryResults :
        /\ Len(r) = Len(rows)
        /\ \E k \in DOMAIN rows : rows[k].id = j
        /\ \A k \in DOMAIN rows :
              \E i \in DOMAIN r :
                 /\ r[i].id = rows[k].id
                 /\ IF rows[k].id = j THEN r[i].distance < rows[k].distance
                    ELSE r[i].distance = rows[k].distance}

\* the second pairs of results for a first pair
Variants(desc, title) ==
    {[kind |-> "permute", id |-> 0, desc |-> d, title |-> title, out |-> <<>>] :
        d \in DeliveryOrders(desc) \ {desc}}
    \cup (IF title.none THEN {}
          ELSE {[kind |-> "permute", id |-> 0, desc |-> desc,
                 title |-> Some(t), out |-> <<>>] :
                   t \in DeliveryOrders(title.rows) \ {title.rows}}
               \cup UNION {{[kind |-> "decrease", id |-> j, desc |-> d,
                             title |-> title, out |-> <<>>] :
                               d \in Decreased(desc, j)} : j \in JobIds}
               \cup UNION {{[kind |-> "decrease", id |-> j, desc |-> desc,
                             title |-> Some(t), out |-> <<>>] :
                               t \in Decreased(title.rows, j)} : j \in JobIds})

InitPair ==
    /\ NoSimilarity
    /\ app_state = Loaded(Len(CollectionNames))
    /\ job_desc_results \in QueryResults
    /\ job_title_results \in {None} \cup {Some(r) : r \in QueryResults}
    /\ variant \in Variants(job_desc_results, job_title_results)
    /\ tie_policy \in TiePolicies
    /\ recommendations_list = <<>>
    /\ mpc = "input"
    /\ user_cv_embeddings = [u \in Users |-> NoVec]
    /\ last_write = [u \in Users |-> NoWrite]
    /\ job_desc_collection = [j \in JobIds |-> NoVec]
    /\ job_titles_collection = [j \in JobIds |-> NoVec]
    /\ req = [r \in Reqs |-> IdleReq]
    /\ loop = 0

\* get_recommendations scores both description results
PairRoute ==
    /\ mpc = "input"
    /\ job_title_results.none
    /\ recommendations_list' = RouteRecommendationsOf(job_desc_results)
    /\ variant' = [variant EXCEPT !.out = RouteRecommendationsOf(variant.desc)]
    /\ mpc' = "route"
    /\ UNCHANGED <<job_desc_results, job_title_results, svars>>

\* recommendations scores both pairs through merge_dataframes
PairMerge ==
    /\ mpc = "input"
    /\ recommendations_list' =
          MergeRecommendationsOf(job_desc_results, job_title_results)
    /\ variant' = [variant EXCEPT !.out =
                      MergeRecommendationsOf(variant.desc, variant.title)]
    /\ mpc' = "merge"
    /\ UNCHANGED <<job_desc_results, job_title_results, svars>>

NextPair == PairRoute \/ PairMerge

SpecPair == InitPair /\ [][NextPair]_vars

(***************************************************************************)
(* Properties of two related scorings, checked under SpecPair.             *)
(***************************************************************************)
\* the rank of candidate j in a list of recommendations
Rank(out, j) == CHOOSE i \in DOMAIN out : out[i].job_id = j

RankedIds(out) == {out[i].job_id : i \in DOMAIN out}

\* C22: hybrid scoring is monotonic: when one candidate gets a smaller title
\* or description distance and everything else is as before, every unchanged
\* candidate that was ranked behind it is still ranked behind it
C22_HybridMonotonic ==
    (mpc = "merge" /\ variant.kind = "decrease" /\ ~job_title_results.none) =>
       \A y \in RankedIds(Out) \ {variant.id} :
          Rank(Out, variant.id) < Rank(Out, y)
             => Rank(variant.out, variant.id) < Rank(variant.out, y)

\* the (id, score) pairs of a list of recommendations
Pairs(out) == {out[i] : i \in DOMAIN out}

\* both pairs of results have been scored and the second pair holds the rows
\* of the first in another delivery order
ScoredPermuted == mpc \in {"route", "merge"} /\ variant.kind = "permute"

Outcome(r) == [status |-> req[r].status, error |-> req[r].error]

\* the call whose exception ended request r ("none": no call failed)
FailureSource(r) ==
    IF req[r].pc # "done" \/ req[r].error \in {"none", "HTTPException"}
    THEN "none"
    ELSE IF req[r].kind = "ingest"
    THEN (IF req[r].error = "EmbeddingError" THEN "provider"
          ELSE IF req[r].error = "ChromaError" THEN "cache"
          ELSE "other")
    ELSE IF req[r].kind = "recommend"
    THEN (IF req[r].queries = 0 THEN "cache" ELSE "query")
    ELSE "other"

Sources == {"provider", "cache", "query"}

Frames == UNION {[1..n -> Row] : n \in 0..MaxLen}

\* weights in tenths: the defaults 0.7 and 0.3, one half, the ends of [0, 1]
\* and values outside of it
WeightTenths == {-1, 0, 3, 5, 7, 10, 12}

\* df['source'] = s
WithSource(df, s) ==
    [i \in DOMAIN df |->
        [id |-> df[i].id, distance |-> df[i].distance, source |-> s]]

\* the orders in which the rows S of df can come out of an ascending sort on
\* distance: a row of the least remaining distance comes next
RECURSIVE DistanceOrders(_, _)
DistanceOrders(S, df) ==
    IF S = {} THEN {<<>>}
    ELSE UNION {{<<i>> \o t : t \in DistanceOrders(S \ {i}, df)} :
                i \in {i \in S : \A k \in S :
                           df[i].distance <= df[k].distance}}

\* df.sort_values(by='distance', ascending=True): the default sort is not
\* stable, rows of equal distance come in any order
SortByDistance(df) ==
    {[i \in DOMAIN o |-> df[o[i]]] : o \in DistanceOrders(DOMAIN df, df)}

\* the rows of df at the positions S, in frame order
RECURSIVE RowsAt(_, _)
RowsAt(df, S) ==
    IF S = {} THEN <<>>
    ELSE LET i == CHOOSE i \in S : \A k \in S : i <= k
         IN  <<df[i]>> \o RowsAt(df, S \ {i})

\* mutant of DropDuplicates: keep='last'
DropDuplicates_KeepLast(df) ==
    RowsAt(df, {i \in DOMAIN df :
                   \A k \in (i + 1)..Len(df) : df[k].id # df[i].id})

\* df.drop_duplicates(subset='id', keep='first')
DropDuplicates(df) ==
    RowsAt(df, {i \in DOMAIN df : \A k \in 1..(i - 1) : df[k].id # df[i].id})

\* combined_df[combined_df['source'] == s]
FromSource(df, s) == RowsAt(df, {i \in DOMAIN df : df[i].source = s})

\* df.head(n), n >= 0
head(df, n) == SubSeq(df, 1, Min(Len(df), n))

\* int(total_count * w), w in tenths and not negative
IntOfProduct(total_count, w) == (total_count * w) \div 10

\* ObjectId(x): the object id written by the string x
ObjectId(x) == [oid |-> x]

\* lines 37-41: the ValueError checks
ValueError(d1, d2, v1, v2) ==
    \/ ~(0 <= v1 /\ v1 <= 10) \/ ~(0 <= v2 /\ v2 <= 10)
    \/ Len(d1) = 0 \/ Len(d2) = 0

\* lines 48-73: the frames final_df can be
weighted_similarity(d1, d2, v1, v2) ==
    UNION {
      LET deduplicated == DropDuplicates(combined_df)
          from_df1 == FromSource(deduplicated, "df1")
          from_df2 == FromSource(deduplicated, "df2")
          total_count == Len(deduplicated)
          n1 == IntOfProduct(total_count, v1)
          n2 == IntOfProduct(total_count, v2)
      IN  UNION {UNION {SortByDistance(head(s1, n1) \o head(s2, n2)) :
                           s2 \in SortByDistance(from_df2)} :
                    s1 \in SortByDistance(from_df1)}
      : combined_df \in SortByDistance(WithSource(d1, "df1")
                                          \o WithSource(d2, "df2"))}

InitTop ==
    /\ df1 \in Frames /\ df2 \in Frames
    /\ w1 \in WeightTenths /\ w2 \in WeightTenths
    /\ final_df = <<>> /\ mongo_ids = <<>>
    /\ top_status = "called"
    /\ app_state = Loaded(Len(CollectionNames))
    /\ job_desc_results = <<>>
    /\ job_title_results = None
    /\ recommendations_list = <<>>
    /\ mpc = "off"
    /\ variant = NoVariant
    /\ user_cv_embeddings = [u \in Users |-> NoVec]
    /\ last_write = [u \in Users |-> NoWrite]
    /\ job_desc_collection = [j \in JobIds |-> NoVec]
    /\ job_titles_collection = [j \in JobIds |-> NoVec]
    /\ tie_policy = "low"
    /\ req = [r \in Reqs |-> IdleReq]
    /\ loop = 0

\* weighted_similarity raises ValueError
SimilarityRaises ==
    /\ top_status = "called"
    /\ ValueError(df1, df2, w1, w2)
    /\ top_status' = "ValueError"
    /\ UNCHANGED <<df1, df2, w1, w2, final_df, mongo_ids>>
    /\ UNCHANGED <<job_desc_collection, job_titles_collection, tie_policy,
                   app_state, user_cv_embeddings, last_write, req, loop, mvars>>

\* weighted_similarity returns the list of ObjectId, lines 48-78
SimilarityReturns ==
    /\ top_status = "called"
    /\ ~ValueError(df1, df2, w1, w2)
    /\ final_df' \in weighted_similarity(df1, df2, w1, w2)
    /\ mongo_ids' = [i \in DOMAIN final_df' |-> ObjectId(final_df'[i].id)]
    /\ top_status' = "returned"
    /\ UNCHANGED <<df1, df2, w1, w2>>
    /\ UNCHANGED <<job_desc_collection, job_titles_collection, tie_policy,
                   app_state, user_cv_embeddings, last_write, req, loop, mvars>>

NextTop == SimilarityRaises \/ SimilarityReturns

SpecTop == InitTop /\ [][NextTop]_vars


(***************************************************************************)
(* C25                                                                     *)
(***************************************************************************)

\* some step of the handler of request q, or the arrival of a request in its
\* slot, can be taken now
CanProgress(q) ==
    ENABLED (\/ Arrive(q) \/ StatusHeartbeat(q) \/ IngestConvert(q)
             \/ IngestCvToText(q) \/ IngestEmbed(q) \/ IngestUpsert(q)
             \/ CvEmbeddingsGet(q) \/ RecGet(q) \/ RecQuery(q))

EmbeddingOutstanding(r) == req[r].kind = "ingest" /\ req[r].pc = "embed"

\* C25: the call to the embedding provider is a suspension point: while the
\* call of one request is outstanding, every other request that has not been
\* answered yet can make progress
C25_EmbeddingCallSuspends ==
    \A r, q \in Reqs :
        (EmbeddingOutstanding(r) /\ q # r /\ req[q].pc # "done")
            => CanProgress(q)

(***************************************************************************)
(* C26                                                                     *)
(***************************************************************************)

\* loading the collections failed at startup before the cache was loaded
FailedStartup == "user_cv_embeddings_collection" \notin app_state

\* C26: after a startup whose loading of the collections failed, the
\* collections are initialized on first use: no Ingest or Recommend request
\* with a valid key ends for want of a collection
C26_InitializedOnFirstUse ==
    \A r \in Reqs :
        (/\ FailedStartup
         /\ req[r].kind \in {"ingest", "recommend"}
         /\ req[r].pc = "done" /\ req[r].status # 401)
            => req[r].error # "AttributeError"

(***************************************************************************)
(* C27                                                                     *)
(***************************************************************************)

\* the jobs stored in the description collection
StoredJobs == {j \in JobIds : job_desc_collection[j] # NoVec}

RecommendSucceeded(r) ==
    req[r].kind = "recommend" /\ req[r].pc = "done" /\ req[r].status = 200

RecommendedIds(r) ==
    [i \in DOMAIN req[r].recommendations |-> req[r].recommendations[i].job_id]

\* C27: a successful Recommend returns exactly one recommendation for every
\* job the description query can return, which with the result limit of
\* 10000 is every job stored in the collection: neither the query nor the
\* scoring step drops or truncates candidates
C27_EveryCandidateReturned ==
    /\ NResults = 10000
    /\ \A r \in Reqs :
          RecommendSucceeded(r) =>
             /\ Len(RecommendedIds(r)) = Cardinality(StoredJobs)
             /\ {RecommendedIds(r)[i] : i \in DOMAIN RecommendedIds(r)}
                   = StoredJobs

C27_Witness ==
    \E r \in Reqs :
       /\ RecommendSucceeded(r)
       /\ Cardinality(StoredJobs) = MaxIds
       /\ Len(req[r].recommendations) = MaxIds

\* the same on the hybrid path of merge_dataframes: one recommendation for
\* every identifier of the union of the two result sets
C27_UnionReturned ==
    (mpc = "merge" /\ HasTitle) =>
        /\ Len(Out) = Cardinality(RowIds(job_desc_results) \cup RowIds(TitleRows))
        /\ {Out[i].job_id : i \in DOMAIN Out}
              = RowIds(job_desc_results) \cup RowIds(TitleRows)

(***************************************************************************)
(* C28                                                                     *)
(***************************************************************************)

\* the step is taken by the handler of Ingest request r
IngestStep(r) ==
    /\ req[r].kind = "ingest"
    /\ req'[r] # req[r]

\* C28: a step of an Ingest for user u, wherever it falls among the steps of
\* other requests, leaves the cache entry of every other user as it was
C28_IngestTouchesOwnEntryOnly ==
    [][\A r \in Reqs :
          IngestStep(r) =>
             \A v \in Users \ {req[r].user_id} :
                user_cv_embeddings'[v] = user_cv_embeddings[v]]_vars

\* an Ingest has replaced the entry of its user while another request was in
\* progress and the entry of the other user, written before, is still there
C28_Witness ==
    \E r, q \in Reqs : \E v \in Users :
       /\ req[r].kind = "ingest" /\ req[r].pc = "done" /\ req[r].status = 200
       /\ v # req[r].user_id
       /\ last_write[req[r].user_id].replaced
       /\ user_cv_embeddings[req[r].user_id] = req[r].cv_embedding
       /\ user_cv_embeddings[v] \notin {NoVec, req[r].cv_embedding}
       /\ q # r /\ req[q].pc \notin {"idle", "done"}

(***************************************************************************)
(* C29                                                                     *)
(***************************************************************************)

\* request r came without the X-API-Key header or with a key that is not the
\* configured secret
Unauthorized(rq) == rq.kind # "idle" /\ rq.api_key # "valid"

\* C29: a request to any endpoint of the router whose X-API-Key header is
\* missing or differs from the secret ends in 401 on arrival with the cache
\* unchanged, and its handler never runs: no cache read, no cache write and no
\* collection query is made for it
C29_NoAccessWithoutKey ==
    [][\A r \in Reqs :
          /\ Unauthorized(req'[r]) =>
                /\ req'[r].pc = "done" /\ req'[r].status = 401
                /\ req'[r].cv_embedding = NoVec
                /\ req'[r].queries = 0
                /\ req'[r].recommendations = <<>>
                /\ req'[r] # req[r] =>
                      user_cv_embeddings' = user_cv_embeddings
          /\ (Unauthorized(req[r]) /\ req'[r] # req[r]) =>
                /\ req'[r] = IdleReq
                /\ user_cv_embeddings' = user_cv_embeddings]_vars

\* requests of each endpoint with a wrong and with a missing key have been
\* refused while the cache holds an entry
C29_Witness ==
    \E r, q \in Reqs :
       /\ req[r].api_key = "wrong" /\ req[r].status = 401
       /\ req[q].api_key = "missing" /\ req[q].status = 401
       /\ req[r].kind \in {"ingest", "cv_embeddings"}
       /\ req[q].kind \in {"recommend", "status"}
       /\ \E u \in Users : user_cv_embeddings[u] # NoVec

(***************************************************************************)
(* C30, checked under SpecTop                                              *)
(***************************************************************************)

\* the distances the inputs give for identifier j
InputDistances(j) ==
    {df1[i].distance : i \in {i \in DOMAIN df1 : df1[i].id = j}}
       \cup {df2[i].distance : i \in {i \in DOMAIN df2 : df2[i].id = j}}

\* the identifiers of the two inputs
InputIds == RowIds(df1) \cup RowIds(df2)

\* the number of returned rows that come from the input s
CountFrom(s) == Cardinality({i \in DOMAIN final_df : final_df[i].source = s})

\* C30: weighted_similarity, for two non-empty inputs and weights in [0, 1],
\* returns pairwise distinct identifiers in the order of ascending distance;
\* the row considered for an identifier is the one of its smallest distance
\* in the two inputs; and at most int(total * w1) rows of the first input and
\* int(total * w2) rows of the second are returned, never more than there are
\* distinct identifiers in the inputs
C30_WeightedSimilarity ==
    top_status = "returned" =>
       /\ \A i, k \in DOMAIN mongo_ids : i # k => mongo_ids[i] # mongo_ids[k]
       /\ \A i \in DOMAIN final_df : mongo_ids[i] = ObjectId(final_df[i].id)
       /\ \A i \in 1..(Len(final_df) - 1) :
             final_df[i].distance <= final_df[i + 1].distance
       /\ \A i \in DOMAIN final_df :
             /\ final_df[i].id \in InputIds
             /\ \A d \in InputDistances(final_df[i].id) :
                   final_df[i].distance <= d
             /\ final_df[i].distance \in InputDistances(final_df[i].id)
       /\ Len(mongo_ids) <= Cardinality(InputIds)
       /\ CountFrom("df1") <= IntOfProduct(Cardinality(InputIds), w1)
       /\ CountFrom("df2") <= IntOfProduct(Cardinality(InputIds), w2)

\* a call that returned rows of both inputs, one of them for an identifier the
\* two inputs give different distances, and that left an identifier out
C30_Witness ==
    /\ top_status = "returned"
    /\ CountFrom("df1") >= 1 /\ CountFrom("df2") >= 1
    /\ Len(mongo_ids) < Cardinality(InputIds)
    /\ \E i \in DOMAIN final_df :
          /\ final_df[i].id \in RowIds(df1) \cap RowIds(df2)
          /\ Cardinality(InputDistances(final_df[i].id)) >= 2

=============================================================================
